---- MODULE Spec2Model ----
(***************************************************************************)
(* Frontier search of explore (src/explore/src/frontier_search.cpp):       *)
(* FrontierSearch::searchFrom, buildNewFrontier, isNewFrontierCell and     *)
(* frontierCost, run against a costmap that a concurrent mapping thread    *)
(* rewrites under the costmap mutex.                                       *)
(*                                                                         *)
(* Numbers.  World coordinates are integers in units of half a cell, so    *)
(* the resolution is 2 and the centre of cell m lies at 2m+1.  A C++       *)
(* double is a record [k, v]: k = "fin" with v the value in 1/Scale units  *)
(* (truncated fixed point), or k = "inf" / "ninf" / "nan" with v = 0, with *)
(* the IEEE rules for the operations the code applies to them.             *)
(***************************************************************************)
EXTENDS Integers, Sequences, FiniteSets

\* ---------------------------------------------------------------- bounds

\* Pose coordinates range over the centres of MaxCells cells per axis.
MaxCells == 3
\* Fixed-point denominator of the doubles.
Scale == 100

\* ------------------------------------------------------- program constants

FREE_SPACE == 0
LETHAL_OBSTACLE == 254
NO_INFORMATION == 255
\* costmap_->getResolution(), in world units.
Resolution == 2

\* --------------------------------------------------------------- doubles

Fin(n) == [k |-> "fin", v |-> n]
PosInf == [k |-> "inf", v |-> 0]
NegInf == [k |-> "ninf", v |-> 0]
NaN == [k |-> "nan", v |-> 0]

\* a < b on doubles: false whenever either side is NaN.
DLess(a, b) ==
  CASE a.k = "nan" \/ b.k = "nan" -> FALSE
    [] a.k = "inf" -> FALSE
    [] b.k = "ninf" -> FALSE
    [] a.k = "ninf" -> TRUE
    [] b.k = "inf" -> TRUE
    [] OTHER -> a.v < b.v

\* a <= b on doubles.
DLeq(a, b) ==
  CASE a.k = "nan" \/ b.k = "nan" -> FALSE
    [] a.k = "ninf" \/ b.k = "inf" -> TRUE
    [] a.k = "inf" \/ b.k = "ninf" -> FALSE
    [] OTHER -> a.v <= b.v

\* n * d for a finite integer factor n: 0 * inf is NaN.
DTimes(n, d) ==
  CASE d.k = "fin" -> Fin(n * d.v)
    [] d.k = "nan" -> NaN
    [] n = 0 -> NaN
    [] (n > 0) = (d.k = "inf") -> PosInf
    [] OTHER -> NegInf

\* a + b on doubles: inf + (-inf) is NaN.
DPlus(a, b) ==
  CASE a.k = "nan" \/ b.k = "nan" -> NaN
    [] a.k = "fin" /\ b.k = "fin" -> Fin(a.v + b.v)
    [] a.k = "fin" -> b
    [] b.k = "fin" -> a
    [] a.k = b.k -> a
    [] OTHER -> NaN

DNeg(a) ==
  CASE a.k = "fin" -> Fin(0 - a.v)
    [] a.k = "inf" -> NegInf
    [] a.k = "ninf" -> PosInf
    [] OTHER -> NaN

Abs(n) == IF n < 0 THEN 0 - n ELSE n

RECURSIVE SqrtBits(_, _, _)
\* Largest r with r*r <= n, found bit by bit from the step b downwards.
SqrtBits(n, r, b) ==
  IF b = 0 THEN r
  ELSE IF (r + b) * (r + b) <= n THEN SqrtBits(n, r + b, b \div 2)
       ELSE SqrtBits(n, r, b \div 2)

\* std::sqrt of the integer n, in 1/Scale units.
Sqrt(n) == SqrtBits(n * Scale * Scale, 0, 16384)

\* pi in 1/Scale units.
Pi == (355 * Scale) \div 113

\* atan(n/d) for 0 <= n <= d, d > 0, in 1/Scale units:
\* atan z ~ z * (pi/4 + 0.273 * (1 - z)).
AtanFrac(n, d) ==
  (n * (Pi * d + ((1092 * Scale) \div 1000) * (d - n))) \div (4 * d * d)

\* atan of a point of the first quadrant, not the origin.
AtanQuad(y, x) ==
  IF y <= x THEN AtanFrac(y, x) ELSE (Pi \div 2) - AtanFrac(x, y)

\* std::atan2(y, x) in 1/Scale units; atan2(0, 0) = 0.
Atan2(y, x) ==
  CASE x = 0 /\ y = 0 -> 0
    [] x >= 0 /\ y >= 0 -> AtanQuad(y, x)
    [] x < 0 /\ y >= 0 -> Pi - AtanQuad(y, 0 - x)
    [] x < 0 /\ y < 0 -> AtanQuad(0 - y, 0 - x) - Pi
    [] OTHER -> 0 - AtanQuad(0 - y, x)

\* |orient_curr.angleShortestPath(orient_out)| of two rotations about z.
AngleShortestPath(h, yaw) ==
  LET d == Abs(h - yaw) % (2 * Pi)
  IN  IF d > Pi THEN 2 * Pi - d ELSE d

\* -------------------------------------------------------------- costmap

\* A costmap is a record [sx, sy, cells]: sx * sy cells in row-major order,
\* the cell of index i stored at cells[i + 1]; its origin is the world origin.
F == FREE_SPACE
L == LETHAL_OBSTACLE
U == NO_INFORMATION
\* A cell of intermediate traversal cost.
G == LETHAL_OBSTACLE \div 2

\* The costmaps the mapping thread publishes.
Maps ==
  { [sx |-> 3, sy |-> 3, cells |-> << F, F, U,
                                      F, F, L,
                                      U, F, F >>],
    [sx |-> 3, sy |-> 3, cells |-> << U, F, U,
                                      U, F, U,
                                      F, F, F >>],
    [sx |-> 3, sy |-> 3, cells |-> << U, U, U,
                                      U, F, U,
                                      U, U, U >>],
    [sx |-> 3, sy |-> 2, cells |-> << G, F, U,
                                      L, G, U >>],
    [sx |-> 2, sy |-> 2, cells |-> << L, U,
                                      U, U >>] }

NumCells(cm) == cm.sx * cm.sy
SizeOf(cm) == [sx |-> cm.sx, sy |-> cm.sy]

SeqToSet(s) == {s[i] : i \in 1..Len(s)}

\* 4-connected neighbourhood of idx: left, right, up, down, inside the map;
\* empty for an index off the map.
nhood4(idx, cm) ==
  IF idx > NumCells(cm) - 1 THEN <<>>
  ELSE (IF idx % cm.sx > 0 THEN <<idx - 1>> ELSE <<>>)
       \o (IF idx % cm.sx < cm.sx - 1 THEN <<idx + 1>> ELSE <<>>)
       \o (IF idx >= cm.sx THEN <<idx - cm.sx>> ELSE <<>>)
       \o (IF idx < cm.sx * (cm.sy - 1) THEN <<idx + cm.sx>> ELSE <<>>)

\* Mutant: the diagonal neighbours are left out.
nhood8NoDiagonals(idx, cm) == nhood4(idx, cm)

\* 8-connected neighbourhood of idx: the 4-connected one, then the diagonals.
nhood8(idx, cm) ==
  IF idx > NumCells(cm) - 1 THEN <<>>
  ELSE nhood4(idx, cm)
       \o (IF idx % cm.sx > 0 /\ idx >= cm.sx
           THEN <<idx - 1 - cm.sx>> ELSE <<>>)
       \o (IF idx % cm.sx > 0 /\ idx < cm.sx * (cm.sy - 1)
           THEN <<idx - 1 + cm.sx>> ELSE <<>>)
       \o (IF idx % cm.sx < cm.sx - 1 /\ idx >= cm.sx
           THEN <<idx + 1 - cm.sx>> ELSE <<>>)
       \o (IF idx % cm.sx < cm.sx - 1 /\ idx < cm.sx * (cm.sy - 1)
           THEN <<idx + 1 + cm.sx>> ELSE <<>>)

RECURSIVE NearestBfs(_, _, _, _)
\* Breadth-first search over the 4-connected neighbourhood for the first
\* cell of value val; queue holds the cells to expand, seen the cells
\* ever queued.
NearestBfs(queue, seen, val, cm) ==
  IF queue = <<>> THEN [found |-> FALSE, cell |-> 0]
  ELSE LET idx == Head(queue)
           NotSeen(n) == n \notin seen
           new == SelectSeq(nhood4(idx, cm), NotSeen)
       IN  IF cm.cells[idx + 1] = val THEN [found |-> TRUE, cell |-> idx]
           ELSE NearestBfs(Tail(queue) \o new, seen \cup SeqToSet(new), val, cm)

\* nearestCell(result, start, val, costmap): no match from a start off the
\* map.
nearestCell(start, val, cm) ==
  IF start >= NumCells(cm) THEN [found |-> FALSE, cell |-> 0]
  ELSE NearestBfs(<<start>>, {start}, val, cm)

\* Costmap2D::worldToMap on a map of sx by sy cells: the cell of a world
\* point, or no cell for a point off the map.
worldToMap(wx, wy, sx, sy) ==
  IF wx < 0 \/ wy < 0 THEN [ok |-> FALSE, mx |-> 0, my |-> 0]
  ELSE LET cx == wx \div Resolution
           cy == wy \div Resolution
       IN  IF cx < sx /\ cy < sy THEN [ok |-> TRUE, mx |-> cx, my |-> cy]
           ELSE [ok |-> FALSE, mx |-> 0, my |-> 0]

\* Costmap2D::getIndex.
getIndex(cx, cy, cm) == cy * cm.sx + cx

\* Costmap2D::indexToCells then mapToWorld: the centre of cell idx.
CellToWorld(idx, cm) ==
  LET cy == idx \div cm.sx
      cx == idx - cy * cm.sx
  IN  [x |-> cx * Resolution + Resolution \div 2,
       y |-> cy * Resolution + Resolution \div 2]

\* ------------------------------------------------------- frontier search

\* The cost of a frontier that has not been scored.
Unscored == [k |-> "undef", v |-> 0]

\* Mutant: the frontier flag of a cell is left as it was.
LeaveUnmarked(flag, nbr) == flag

\* searchFrom, line 79, and buildNewFrontier, line 133:
\* frontier_flag[nbr] = true.
MarkFrontier(flag, nbr) == [flag EXCEPT ![nbr] = TRUE]

\* Mutant: any unknown cell not yet flagged is a new frontier cell.
isUnflaggedUnknown(idx, flag, m, cm) ==
  m[idx + 1] = NO_INFORMATION /\ ~flag[idx]

\* FrontierSearch::isNewFrontierCell: the cell is unknown, not flagged, and
\* has a free cell in its 4-connected neighbourhood.
isNewFrontierCell(idx, flag, m, cm) ==
  /\ m[idx + 1] = NO_INFORMATION
  /\ ~flag[idx]
  /\ \E i \in 1..Len(nhood4(idx, cm)) : m[nhood4(idx, cm)[i] + 1] = FREE_SPACE

\* Mutant: the first cell of a region is not counted.
UncountedSeed(initial_cell, cm) ==
  [size |-> 0,
   min_distance |-> PosInf,
   initial |-> CellToWorld(initial_cell, cm),
   centroid |-> [x |-> 0, y |-> 0],
   middle |-> [x |-> 0, y |-> 0],
   points |-> <<>>,
   orientation |-> 0,
   angular_distance |-> 0,
   cost |-> Unscored]

\* buildNewFrontier, lines 102-111: the frontier structure of a new region.
\* The points of a default-constructed Frontier are zero.
NewFrontier(initial_cell, cm) ==
  [size |-> 1,
   min_distance |-> PosInf,
   initial |-> CellToWorld(initial_cell, cm),
   centroid |-> [x |-> 0, y |-> 0],
   middle |-> [x |-> 0, y |-> 0],
   points |-> <<>>,
   orientation |-> 0,
   angular_distance |-> 0,
   cost |-> Unscored]

\* std::sqrt(std::pow(px - wx, 2) + std::pow(py - wy, 2)).
Distance(p, w) == Fin(Sqrt((p.x - w.x) * (p.x - w.x) + (p.y - w.y) * (p.y - w.y)))

\* buildNewFrontier, lines 134-158: the cell nbr joins the region.
AddPoint(output, nbr, reference_pose, cm) ==
  LET w == CellToWorld(nbr, cm)
      distance == Distance(reference_pose, w)
      closer == DLess(distance, output.min_distance)
  IN  [output EXCEPT
         !.points = Append(@, w),
         !.size = @ + 1,
         !.centroid = [x |-> @.x + w.x, y |-> @.y + w.y],
         !.min_distance = IF closer THEN distance ELSE @,
         !.middle = IF closer THEN w ELSE @]

\* buildNewFrontier, line 161: the region has reached the maximum size.
ReachedMaxSize(output, max_frontier_size) ==
  max_frontier_size > 0 /\ output.size * Resolution >= max_frontier_size

RECURSIVE ScanNhood8(_, _, _, _, _, _)
\* buildNewFrontier, lines 129-169: the loop over the 8-connected
\* neighbourhood of one dequeued cell.  st holds the region, the frontier
\* flags, the queue and frontier_completed; the loop breaks once the region
\* has reached the maximum size.
ScanNhood8(nbrs, st, reference_pose, max_frontier_size, m, cm) ==
  IF nbrs = <<>> \/ st.frontier_completed THEN st
  ELSE LET nbr == Head(nbrs)
       IN  IF isNewFrontierCell(nbr, st.frontier_flag, m, cm)
           THEN LET out == AddPoint(st.output, nbr, reference_pose, cm)
                    full == ReachedMaxSize(out, max_frontier_size)
                IN  ScanNhood8(Tail(nbrs),
                      [output |-> out,
                       frontier_flag |-> MarkFrontier(st.frontier_flag, nbr),
                       bfs |-> IF full THEN st.bfs ELSE Append(st.bfs, nbr),
                       frontier_completed |-> full],
                      reference_pose, max_frontier_size, m, cm)
           ELSE ScanNhood8(Tail(nbrs), st, reference_pose, max_frontier_size, m, cm)

\* buildNewFrontier, lines 172-195: the centroid is replaced by the middle,
\* then orientation and angular distance relative to the reference pose.
CompleteFrontier(output, reference_pose) ==
  LET yaw == Atan2(output.middle.y - reference_pose.y,
                   output.middle.x - reference_pose.x)
  IN  [output EXCEPT
         !.centroid = output.middle,
         !.orientation = yaw,
         !.angular_distance = AngleShortestPath(reference_pose.yaw, yaw)]

\* Mutant: the gain is added to the cost.
frontierCostGainAdded(frontier, cfg) ==
  LET position == DTimes(Resolution, DTimes(cfg.potential_scale, frontier.min_distance))
      gain == Fin(cfg.gain_scale * frontier.size * Resolution * Scale)
      orientation == Fin(cfg.orientation_scale * frontier.angular_distance)
  IN  DPlus(DPlus(orientation, position), gain)

\* FrontierSearch::frontierCost: orientation + position - gain.
frontierCost(frontier, cfg) ==
  LET position == DTimes(Resolution, DTimes(cfg.potential_scale, frontier.min_distance))
      gain == Fin(cfg.gain_scale * frontier.size * Resolution * Scale)
      orientation == Fin(cfg.orientation_scale * frontier.angular_distance)
  IN  DPlus(DPlus(orientation, position), DNeg(gain))

\* Mutant: no minimum size is asked of a region.
AnySize(frontier, min_frontier_size) == frontier.size >= 1

\* searchFrom, line 81: the region meets the minimum size.
MeetsMinSize(frontier, min_frontier_size) ==
  frontier.size * Resolution >= min_frontier_size

\* searchFrom, lines 81-85: a region of the minimum size is scored and
\* appended to the list.
Collect(frontier_list, new_frontier, cfg) ==
  IF MeetsMinSize(new_frontier, cfg.min_frontier_size)
  THEN Append(frontier_list,
              [new_frontier EXCEPT !.cost = frontierCost(new_frontier, cfg)])
  ELSE frontier_list

RECURSIVE InsertByCost(_, _, _)
\* new_frontier put into a list sorted by cost: after the frontiers of equal
\* cost when ties keep their order, before them when ties are reversed.
InsertByCost(sorted, new_frontier, tie) ==
  IF sorted = <<>> THEN <<new_frontier>>
  ELSE LET before ==
             IF tie = "keep" THEN DLess(new_frontier.cost, Head(sorted).cost)
             ELSE ~DLess(Head(sorted).cost, new_frontier.cost)
       IN  IF before THEN <<new_frontier>> \o sorted
           ELSE <<Head(sorted)>> \o InsertByCost(Tail(sorted), new_frontier, tie)

RECURSIVE SortByCost(_, _)
\* searchFrom, lines 90-92: std::sort by f1.cost < f2.cost, as the insertion
\* sort the library runs on a short range.  Where it leaves frontiers of
\* equal cost is the library's choice, tie.  With a NaN cost the comparison
\* is no strict weak ordering, and the list is left as these comparisons
\* put it.
SortByCost(list, tie) ==
  IF list = <<>> THEN <<>>
  ELSE InsertByCost(SortByCost(SubSeq(list, 1, Len(list) - 1), tie),
                    list[Len(list)], tie)

\* ------------------------------------------------------------- inputs

\* Poses: a position at the centre of a cell column and row, or left of or
\* above the map, and a heading about z.
PoseCoords == {0 - 1} \cup {i * Resolution + Resolution \div 2 : i \in 0..(MaxCells - 1)}
Headings == {0, Pi \div 2}
Poses == [x : PoseCoords, y : PoseCoords, yaw : Headings]

\* The constructor's parameters; sizes in world units.
\* The weights vary with no size limits set, the size limits vary with all
\* weights set.
Configs ==
  {c \in [potential_scale : {0, 1},
          gain_scale : {1},
          orientation_scale : {0, 1},
          min_frontier_size : {0, 2 * Resolution},
          max_frontier_size : {0, Resolution \div 2, 3 * Resolution}] :
     \/ c.potential_scale = 1 /\ c.orientation_scale = 1
     \/ c.min_frontier_size = 0 /\ c.max_frontier_size = 0}

\* -------------------------------------------------------------- state

VARIABLES
  costmap,            \* *costmap_: the map shared with the mapping thread
  lock,               \* owner of the costmap mutex: "free", "search", "mapper"
  cfg,                \* potential_scale_, gain_scale_, ..., max_frontier_size_
  tie,                \* how this build's std::sort orders equal costs
  pc,                 \* position of the search thread
  pose,               \* argument of searchFrom
  mx, my,             \* cell of the pose, from worldToMap
  map_, size_x_, size_y_,      \* members of FrontierSearch
  frontier_flag, visited_flag, \* flag arrays of searchFrom
  bfs,                \* queue of searchFrom
  idx, nbrs,          \* dequeued cell, and its neighbours still to visit
  output,             \* buildNewFrontier: the region under construction
  region_bfs,         \* buildNewFrontier: its queue
  frontier_completed, \* buildNewFrontier: its loop flag
  frontier_list,      \* frontiers collected by searchFrom
  result,             \* the list the last call returned
  errors, warns,      \* RCLCPP_ERROR / RCLCPP_WARN raised by the call
  built,              \* history: every region buildNewFrontier returned
  appended,           \* history: frontier_list as it was before the sort
  seen,               \* history: the size of the map as worldToMap read it
  prev,               \* history: result of the call before, same pose and map
  quiet               \* history: no map write since the call began

vars == <<costmap, lock, cfg, tie, pc, pose, mx, my, map_, size_x_,
          size_y_, frontier_flag, visited_flag, bfs, idx, nbrs, output,
          region_bfs, frontier_completed, frontier_list, result, errors,
          warns, built, appended, seen, prev, quiet>>

memberVars == <<map_, size_x_, size_y_>>
discoveryVars == <<frontier_flag, visited_flag, bfs, idx, nbrs, frontier_list>>
builderVars == <<output, region_bfs, frontier_completed, built>>
signalVars == <<errors, warns>>
historyVars == <<seen, prev, quiet>>

NoFrontier == NewFrontier(0, [sx |-> 1, sy |-> 1])
NoPrev == [valid |-> FALSE, list |-> <<>>]
NoPose == [x |-> 0, y |-> 0, yaw |-> 0]
NoSize == [sx |-> 0, sy |-> 0]

Init ==
  /\ costmap \in Maps
  /\ lock = "free"
  /\ cfg \in Configs
  /\ tie \in {"keep", "reverse"}
  /\ pc = "idle"
  /\ pose = NoPose
  /\ mx = 0 /\ my = 0
  /\ map_ = <<>> /\ size_x_ = 0 /\ size_y_ = 0
  /\ frontier_flag = <<>> /\ visited_flag = <<>>
  /\ bfs = <<>> /\ idx = 0 /\ nbrs = <<>>
  /\ output = NoFrontier /\ region_bfs = <<>> /\ frontier_completed = FALSE
  /\ frontier_list = <<>> /\ result = <<>>
  /\ errors = 0 /\ warns = 0
  /\ built = <<>> /\ appended = <<>>
  /\ seen = NoSize /\ prev = NoPrev /\ quiet = FALSE

\* ------------------------------------------------------- the search thread

\* The locals of searchFrom and buildNewFrontier once the call has ended.
ClearLocals ==
  /\ frontier_flag' = <<>> /\ visited_flag' = <<>>
  /\ bfs' = <<>> /\ idx' = 0 /\ nbrs' = <<>>
  /\ frontier_list' = <<>>
  /\ output' = NoFrontier /\ region_bfs' = <<>> /\ frontier_completed' = FALSE

\* Mutant: frontier_list outlives the call and is not emptied.
StaleList == result

\* searchFrom, line 31: frontier_list is a local, empty in every call.
NewList == <<>>

\* searchFrom, lines 29-31: the call begins.
Call(p) ==
  /\ pc \in {"idle", "done"}
  /\ pc' = "convert"
  /\ pose' = p
  /\ frontier_list' = NewList
  /\ result' = <<>>
  /\ errors' = 0 /\ warns' = 0
  /\ built' = <<>> /\ appended' = <<>>
  /\ seen' = NoSize
  /\ prev' = IF quiet /\ p = pose THEN [valid |-> TRUE, list |-> result] ELSE NoPrev
  /\ quiet' = TRUE
  /\ UNCHANGED <<costmap, lock, cfg, tie, mx, my, memberVars, frontier_flag,
                 visited_flag, bfs, idx, nbrs, output, region_bfs,
                 frontier_completed>>

\* Mutant: the error is logged and the search goes on.
AbortWithoutReturn ==
  /\ errors' = errors + 1
  /\ result' = result
  /\ appended' = appended
  /\ pc' = "lock"

\* searchFrom, lines 36-37: the error is logged and the call returns the
\* list, still empty.
Abort ==
  /\ errors' = errors + 1
  /\ result' = frontier_list
  /\ appended' = frontier_list
  /\ pc' = "done"

\* searchFrom, lines 35-38: the pose is converted to a cell before the mutex
\* is taken, on the map as it is at that moment (a conversion that overlaps
\* a write of the map sees the map before or after the write); a pose off
\* the map ends the call with the empty list.
Convert ==
  /\ pc = "convert"
  /\ LET c == worldToMap(pose.x, pose.y, costmap.sx, costmap.sy)
     IN  IF c.ok
         THEN /\ mx' = c.mx /\ my' = c.my
              /\ pc' = "lock"
              /\ UNCHANGED <<result, errors, appended, discoveryVars,
                             output, region_bfs, frontier_completed>>
         ELSE /\ Abort
              /\ ClearLocals
              /\ UNCHANGED <<mx, my>>
  /\ seen' = SizeOf(costmap)
  /\ UNCHANGED <<costmap, lock, cfg, tie, pose, memberVars, warns, built,
                 prev, quiet>>

\* searchFrom, lines 41-42: std::lock_guard on the costmap mutex.
AcquireLock ==
  /\ pc = "lock"
  /\ lock = "free"
  /\ lock' = "search"
  /\ pc' = "setup"
  /\ UNCHANGED <<costmap, cfg, tie, pose, mx, my, memberVars, discoveryVars,
                 builderVars, result, signalVars, appended, historyVars>>

\* Mutant: the search starts at the cell the finder put out, found or not.
StartAtClear(near, pos) == near.cell

\* searchFrom, lines 56-62: the search starts at the nearest free cell, or at
\* the cell of the pose when the finder reports none.
StartCell(near, pos) == IF near.found THEN near.cell ELSE pos

\* searchFrom, lines 44-63: the members and flag arrays are set up and the
\* search is seeded at the nearest free cell, or at the cell of the pose.
\* visited_flag[bfs.front()] for a cell off the map writes outside the
\* vector, which is undefined: the process dies, or goes on with the vector
\* as it was.
Setup ==
  /\ pc = "setup"
  /\ LET pos == getIndex(mx, my, costmap)
         near == nearestCell(pos, FREE_SPACE, costmap)
         start == StartCell(near, pos)
         cells == 0..(NumCells(costmap) - 1)
         clear == [i \in cells |-> FALSE]
     IN  /\ map_' = costmap.cells
         /\ size_x_' = costmap.sx
         /\ size_y_' = costmap.sy
         /\ frontier_flag' = clear
         /\ bfs' = <<start>>
         /\ warns' = IF near.found THEN warns ELSE warns + 1
         /\ IF start \in cells
            THEN /\ visited_flag' = [clear EXCEPT ![start] = TRUE]
                 /\ pc' = "bfs"
            ELSE /\ visited_flag' = clear
                 /\ pc' \in {"bfs", "crashed"}
  /\ seen' = NoSize
  /\ UNCHANGED <<costmap, lock, cfg, tie, pose, mx, my, idx, nbrs,
                 frontier_list, builderVars, result, errors, appended, prev,
                 quiet>>

\* searchFrom, lines 65-70: a cell leaves the queue.
Dequeue ==
  /\ pc = "bfs"
  /\ bfs # <<>>
  /\ idx' = Head(bfs)
  /\ bfs' = Tail(bfs)
  /\ nbrs' = nhood4(Head(bfs), costmap)
  /\ pc' = IF nhood4(Head(bfs), costmap) = <<>> THEN "bfs" ELSE "nbrs"
  /\ UNCHANGED <<costmap, lock, cfg, tie, pose, mx, my, memberVars,
                 frontier_flag, visited_flag, frontier_list, builderVars,
                 result, signalVars, appended, historyVars>>

\* Mutant: the flood fill goes on only to cells of strictly lower value.
StrictlyLower(nbr) == map_[nbr + 1] < map_[idx + 1] /\ ~visited_flag[nbr]

\* Mutant: the flood fill goes on to every unvisited cell.
Unvisited(nbr) == ~visited_flag[nbr]

\* searchFrom, line 73: the neighbour continues the flood fill.
Admissible(nbr) == map_[nbr + 1] <= map_[idx + 1] /\ ~visited_flag[nbr]

\* Mutant: the visited flag of a queued cell is left as it was.
LeaveUnvisited(flag, nbr) == flag

\* searchFrom, line 74: visited_flag[nbr] = true.
MarkVisited(flag, nbr) == [flag EXCEPT ![nbr] = TRUE]

\* Mutant: a cell taken up by the search is marked in the map itself.
MarkInGrid == costmap' = [costmap EXCEPT !.cells[idx + 1] = LETHAL_OBSTACLE]

\* searchFrom and buildNewFrontier read the costmap (getCharMap, nhood4,
\* nhood8, indexToCells, mapToWorld) and write their flag arrays only.
FlagsOnly == costmap' = costmap

\* searchFrom, lines 70-80: one neighbour of the dequeued cell is visited,
\* queued, or taken as the first cell of a new frontier.
Visit ==
  /\ pc = "nbrs"
  /\ LET nbr == Head(nbrs)
         more == IF Tail(nbrs) = <<>> THEN "bfs" ELSE "nbrs"
     IN  /\ nbrs' = Tail(nbrs)
         /\ IF Admissible(nbr)
            THEN /\ visited_flag' = MarkVisited(visited_flag, nbr)
                 /\ bfs' = Append(bfs, nbr)
                 /\ pc' = more
                 /\ UNCHANGED <<frontier_flag, output, region_bfs>>
            ELSE IF isNewFrontierCell(nbr, frontier_flag, map_, costmap)
            THEN /\ frontier_flag' = MarkFrontier(frontier_flag, nbr)
                 /\ output' = NewFrontier(nbr, costmap)
                 /\ region_bfs' = <<nbr>>
                 /\ pc' = "build"
                 /\ UNCHANGED <<visited_flag, bfs>>
            ELSE /\ pc' = more
                 /\ UNCHANGED <<visited_flag, bfs, frontier_flag, output,
                                region_bfs>>
  /\ FlagsOnly
  /\ UNCHANGED <<lock, cfg, tie, pose, mx, my, memberVars, idx,
                 frontier_list, frontier_completed, built, result, signalVars,
                 appended, historyVars>>

\* buildNewFrontier, lines 118-170: one cell leaves the region's queue and
\* its 8-connected neighbourhood is scanned.
Grow ==
  /\ pc = "build"
  /\ ~frontier_completed
  /\ region_bfs # <<>>
  /\ LET st == ScanNhood8(nhood8(Head(region_bfs), costmap),
                         [output |-> output,
                          frontier_flag |-> frontier_flag,
                          bfs |-> Tail(region_bfs),
                          frontier_completed |-> FALSE],
                         pose, cfg.max_frontier_size, map_, costmap)
     IN  /\ output' = st.output
         /\ frontier_flag' = st.frontier_flag
         /\ region_bfs' = st.bfs
         /\ frontier_completed' = st.frontier_completed
  /\ FlagsOnly
  /\ UNCHANGED <<lock, cfg, tie, pc, pose, mx, my, memberVars,
                 visited_flag, bfs, idx, nbrs, frontier_list, built, result,
                 signalVars, appended, historyVars>>

\* buildNewFrontier, lines 120-123 and 172-195, and searchFrom, lines 80-85:
\* the region is complete, returned, and collected if large enough.
Finish ==
  /\ pc = "build"
  /\ frontier_completed \/ region_bfs = <<>>
  /\ LET new_frontier == CompleteFrontier(output, pose)
     IN  /\ built' = Append(built, new_frontier)
         /\ frontier_list' = Collect(frontier_list, new_frontier, cfg)
  /\ output' = NoFrontier
  /\ region_bfs' = <<>>
  /\ frontier_completed' = FALSE
  /\ pc' = IF nbrs = <<>> THEN "bfs" ELSE "nbrs"
  /\ UNCHANGED <<costmap, lock, cfg, tie, pose, mx, my, memberVars,
                 frontier_flag, visited_flag, bfs, idx, nbrs, result,
                 signalVars, appended, historyVars>>

\* Mutant: the mutex is locked by hand and never unlocked.
KeepLock == lock' = lock

\* searchFrom, line 95: the lock_guard leaves scope and releases the mutex.
Unlock == lock' = "free"

\* searchFrom, lines 90-95: the list is sorted and returned.
Return ==
  /\ pc = "bfs"
  /\ bfs = <<>>
  /\ result' = SortByCost(frontier_list, tie)
  /\ appended' = frontier_list
  /\ Unlock
  /\ pc' = "done"
  /\ mx' = 0 /\ my' = 0
  /\ ClearLocals
  /\ UNCHANGED <<costmap, cfg, tie, pose, memberVars, built, signalVars,
                 historyVars>>

\* The caller is through with the returned list.
Drop ==
  /\ pc = "done"
  /\ pc' = "idle"
  /\ pose' = NoPose
  /\ result' = <<>>
  /\ errors' = 0 /\ warns' = 0
  /\ built' = <<>> /\ appended' = <<>>
  /\ seen' = NoSize
  /\ prev' = NoPrev
  /\ quiet' = FALSE
  /\ UNCHANGED <<costmap, lock, cfg, tie, mx, my, memberVars, discoveryVars,
                 output, region_bfs, frontier_completed>>

\* ------------------------------------------------------ the mapping thread

\* The mapping thread takes the mutex.
MapperAcquire ==
  /\ pc # "crashed"
  /\ lock = "free"
  /\ lock' = "mapper"
  /\ UNCHANGED <<costmap, cfg, tie, pc, pose, mx, my, memberVars, discoveryVars,
                 builderVars, result, signalVars, appended, historyVars>>

\* Holding the mutex, it publishes another map: other cells, and another
\* size when the map is resized.
MapperWrite ==
  /\ pc # "crashed"
  /\ lock = "mapper"
  /\ costmap' \in Maps \ {costmap}
  /\ quiet' = FALSE
  /\ prev' = NoPrev
  /\ UNCHANGED <<lock, cfg, tie, pc, pose, mx, my, memberVars, discoveryVars,
                 builderVars, result, signalVars, appended, seen>>

\* It releases the mutex.
MapperRelease ==
  /\ pc # "crashed"
  /\ lock = "mapper"
  /\ lock' = "free"
  /\ UNCHANGED <<costmap, cfg, tie, pc, pose, mx, my, memberVars, discoveryVars,
                 builderVars, result, signalVars, appended, historyVars>>

Next ==
  \/ \E p \in Poses : Call(p)
  \/ Convert
  \/ AcquireLock
  \/ Setup
  \/ Dequeue
  \/ Visit
  \/ Grow
  \/ Finish
  \/ Return
  \/ Drop
  \/ MapperAcquire
  \/ MapperWrite
  \/ MapperRelease

Spec == Init /\ [][Next]_vars

\* -------------------------------------------------------------- claims

InCall == pc \in {"convert", "lock", "setup", "bfs", "nbrs", "build"}
Searching == pc \in {"bfs", "nbrs", "build"}

\* The world position p lies off the map cm.
PoseOffMap(p, cm) ==
  \/ p.x < 0
  \/ p.y < 0
  \/ p.x >= cm.sx * Resolution
  \/ p.y >= cm.sy * Resolution

\* C1: when the position of the pose does not map into the bounds of the
\* map, the call has ended at once: it returned the empty list, raised the
\* bounds error exactly once and no warning, and built no frontier.
C1_OffMapAborts ==
  (seen # NoSize /\ PoseOffMap(pose, seen)) =>
    /\ pc = "done"
    /\ result = <<>>
    /\ errors = 1
    /\ warns = 0
    /\ built = <<>>

\* C1, witness: a call has returned for a pose right of or below a map.
C1_Witness ==
  /\ pc = "done"
  /\ seen # NoSize
  /\ pose.x >= 0 /\ pose.y >= 0
  /\ PoseOffMap(pose, seen)
  /\ errors = 1

\* C2: no write of the map comes between the conversion of the pose and
\* the reads of the search, which holds the mutex from the conversion on:
\* the search reads a map of the size the conversion read, and every cell
\* it queues or expands is a cell of that map.
C2_ConsistentView ==
  /\ pc = "setup" => seen = SizeOf(costmap)
  /\ Searching => \A i \in 1..Len(bfs) : bfs[i] < NumCells(costmap)
  /\ pc \in {"nbrs", "build"} => idx < NumCells(costmap)

\* C3: the search holds the mutex in no state in which searchFrom has
\* returned, whichever way it returned, nor before it has locked it.
C3_LockReleased ==
  pc \in {"idle", "done", "convert", "lock"} => lock # "search"

\* C3, witness: the call returned on the degraded path, and the mapping
\* thread has taken the mutex since.
C3_Witness ==
  /\ pc = "done"
  /\ warns = 1
  /\ errors = 0
  /\ lock = "mapper"

\* The cells of a region, as world points: its first cell and its points.
RegionCells(f) == {f.initial} \cup SeqToSet(f.points)

\* How often x occurs in the list s.
Count(s, x) == Cardinality({i \in 1..Len(s) : s[i] = x})

\* C4: every frontier returned has a finite min_distance, and a region of
\* its first cell alone has that cell as middle and the distance from the
\* pose to that cell as min_distance.
C4_SeedContributes ==
  \A i \in 1..Len(result) :
    /\ result[i].min_distance.k = "fin"
    /\ result[i].size = 1 =>
         /\ result[i].middle = result[i].initial
         /\ result[i].min_distance = Distance(pose, result[i].initial)

\* C5: the middle of every frontier built is a cell of its region, its
\* first cell included, min_distance is the distance from the pose to it,
\* and no cell of the region is closer to the pose.
C5_MiddleIsClosest ==
  \A i \in 1..Len(built) :
    /\ built[i].middle \in RegionCells(built[i])
    /\ built[i].min_distance = Distance(pose, built[i].middle)
    /\ \A c \in RegionCells(built[i]) :
         ~DLess(Distance(pose, c), built[i].min_distance)

\* C6: with a positive max_frontier_size, however small, no frontier built
\* is larger than it by more than one cell.
C6_MaxSizeTolerance ==
  cfg.max_frontier_size > 0 =>
    \A i \in 1..Len(built) :
      built[i].size * Resolution <= cfg.max_frontier_size + Resolution

\* C7: every frontier collected or returned is at least min_frontier_size
\* large, and the frontiers returned are as many as the regions built of at
\* least that size: smaller regions are dropped, all of them when every
\* region is smaller.
C7_MinSizeFilter ==
  /\ \A i \in 1..Len(frontier_list) :
       frontier_list[i].size * Resolution >= cfg.min_frontier_size
  /\ \A i \in 1..Len(result) :
       /\ result[i].size * Resolution >= cfg.min_frontier_size
       /\ result[i].cost # Unscored
  /\ pc = "done" =>
       Len(result) = Cardinality({i \in 1..Len(built) :
                        built[i].size * Resolution >= cfg.min_frontier_size})

\* C7, witness: a call returned some of the regions it built and dropped
\* others.
C7_Witness ==
  /\ pc = "done"
  /\ Len(result) >= 1
  /\ Len(result) < Len(built)

\* C8: in the list returned the costs do not decrease, and the list is a
\* rearrangement of the frontiers collected.
C8_SortedPermutation ==
  pc = "done" =>
    /\ \A i \in 1..(Len(result) - 1) : DLeq(result[i].cost, result[i + 1].cost)
    /\ Len(result) = Len(appended)
    /\ \A i \in 1..Len(appended) :
         Count(result, appended[i]) = Count(appended, appended[i])

\* The place of the frontier f in the list s.
Place(s, f) == CHOOSE i \in 1..Len(s) : s[i] = f

\* C9: returned frontiers of equal cost stand in the order in which they
\* were collected.
C9_StableSort ==
  pc = "done" =>
    \A i, j \in 1..Len(result) :
      (i < j /\ result[i].cost = result[j].cost) =>
        Place(appended, result[i]) < Place(appended, result[j])

\* C10: a call right after another, with the same pose and no write of the
\* map since the first began, returns the list the first returned.
C10_Idempotent ==
  (pc = "done" /\ prev.valid) => result = prev.list

\* C10, witness: the second of two such calls returned two frontiers or
\* more.
C10_Witness ==
  /\ pc = "done"
  /\ prev.valid
  /\ Len(result) >= 2

\* The cell of the pose and the cell the search started at, in the map the
\* search holds locked.
PoseCell == getIndex(mx, my, costmap)
SeedCell == StartCell(nearestCell(PoseCell, FREE_SPACE, costmap), PoseCell)

\* No cell of the map m is free.
NoFreeCell(m) == \A i \in 1..Len(m) : m[i] # FREE_SPACE

\* The cells whose flag is set.
Flagged(flag) == {c \in DOMAIN flag : flag[c]}

\* C11: when the pose lies in the map and the map has no free cell for the
\* finder to report, the search goes on from the cell of the pose: that
\* cell is marked visited and is the one cell queued at the start, the
\* warning is raised exactly once and no error, and the call returns with
\* one warning and no error; with a free cell in the map no warning is
\* raised.
C11_DegradedContinuation ==
  /\ (Searching /\ PoseCell < NumCells(costmap)) =>
       IF NoFreeCell(map_)
       THEN /\ warns = 1 /\ errors = 0
            /\ visited_flag[PoseCell]
            /\ SeedCell = PoseCell
            /\ (Flagged(visited_flag) = {PoseCell} /\ bfs # <<>>) =>
                 bfs = <<PoseCell>>
       ELSE warns = 0 /\ errors = 0
  /\ (pc = "done" /\ warns > 0) => (warns = 1 /\ errors = 0)

\* C11, witness: a call on a map without a free cell, not rewritten during
\* the call, has returned with the warning.
C11_Witness ==
  /\ pc = "done"
  /\ quiet
  /\ NoFreeCell(map_)
  /\ map_ = costmap.cells
  /\ warns = 1
  /\ errors = 0

\* A step of searchFrom is possible: the guards of Setup, Dequeue, Return,
\* Visit, Grow and Finish.
CanStep ==
  \/ pc = "setup"
  \/ pc = "bfs" /\ bfs # <<>>
  \/ pc = "bfs" /\ bfs = <<>>
  \/ pc = "nbrs" /\ nbrs # <<>>
  \/ pc = "build" /\ ~frontier_completed /\ region_bfs # <<>>
  \/ pc = "build" /\ (frontier_completed \/ region_bfs = <<>>)

\* The work the search has left: the cells the discovery BFS may still
\* dequeue (those queued and those not yet visited), then the neighbours of
\* the dequeued cell still to visit, then, while a region is built, the
\* cells its queue may still hold (those queued and those not yet flagged).
Variant ==
  LET n == Len(map_)
      unvisited == Cardinality(DOMAIN visited_flag \ Flagged(visited_flag))
      unflagged == Cardinality(DOMAIN frontier_flag \ Flagged(frontier_flag))
      building == IF pc = "build" THEN 1 + unflagged + Len(region_bfs) ELSE 0
  IN  (5 * (unvisited + Len(bfs)) + Len(nbrs)) * (2 * n + 2) + building

\* C12: the search terminates.  From the locking of the mutex to the
\* return a step of the search is always possible (neither loop hangs on a
\* state it cannot leave), and every step of the discovery BFS and of a
\* region builder lowers the work left, a natural number: both queues drain
\* or stop after finitely many steps, on the degraded path and with a
\* maximum size set as well.
C12_Terminates ==
  /\ []((pc = "setup" \/ Searching) => (CanStep /\ Variant >= 0))
  /\ [][(Searching /\ pc' \in {"bfs", "nbrs", "build"}) => Variant' < Variant]_vars

\* C12, witness: a search started on an occupied cell of a map without a
\* free cell has returned.
C12_Witness ==
  /\ pc = "done"
  /\ warns = 1
  /\ errors = 0
  /\ NoFreeCell(map_)
  /\ pose.x = Resolution \div 2 /\ pose.y = Resolution \div 2
  /\ map_[1] = LETHAL_OBSTACLE

\* C13: the size of a region is the number of its points and one more, at
\* every step of its growth and when it is returned, and its first cell is
\* none of its points.
C13_SizeCountsSeed ==
  /\ pc = "build" =>
       /\ output.size = Len(output.points) + 1
       /\ output.initial \notin SeqToSet(output.points)
  /\ \A i \in 1..Len(built) :
       /\ built[i].size = Len(built[i].points) + 1
       /\ built[i].initial \notin SeqToSet(built[i].points)

\* C13, witness: a region of three points or more has been returned.
C13_Witness ==
  \E i \in 1..Len(built) : Len(built[i].points) >= 3

\* What a step of the search thread changes: its position or its locals.
searchVars == <<pc, mx, my, frontier_flag, visited_flag, bfs, idx, nbrs,
                output, region_bfs, frontier_list>>

\* C14: no step of searchFrom, in a call that succeeds, aborts or runs
\* degraded, changes the map: its cells and its size stay as they are (the
\* resolution is fixed), and while the search runs the map is the one it
\* read when it locked it.  Only the mapping thread writes the map.
C14_GridUntouched ==
  /\ [](Searching =>
         /\ costmap.cells = map_
         /\ costmap.sx = size_x_
         /\ costmap.sy = size_y_)
  /\ [][searchVars' # searchVars => costmap' = costmap]_vars

\* C14, witness: a call that built regions, and so set flags, has returned
\* with the map as it read it.
C14_Witness ==
  /\ pc = "done"
  /\ quiet
  /\ errors = 0
  /\ built # <<>>
  /\ costmap.cells = map_

\* orientation_scale * angular_distance
\*   + potential_scale * min_distance * resolution
\*   - gain_scale * size * resolution,
\* in 1/Scale units, for a frontier of finite min_distance.
WeightedSum(f) ==
  cfg.orientation_scale * f.angular_distance
    + cfg.potential_scale * f.min_distance.v * Resolution
    - cfg.gain_scale * f.size * Resolution * Scale

PositiveWeights ==
  cfg.orientation_scale > 0 /\ cfg.potential_scale > 0 /\ cfg.gain_scale > 0

\* C15: the cost of every frontier returned is the weighted sum of its
\* angular distance, its min_distance and its size, taken from the region
\* as buildNewFrontier returned it (an infinite min_distance makes the sum
\* infinite, or no number under a zero weight); so with positive weights,
\* of two frontiers returned that agree in two of the three the larger, the
\* closer, the less turned one has the strictly lower cost, and so has
\* frontierCost for a returned frontier made larger, farther or more turned.
C15_CostFormula ==
  /\ \A i \in 1..Len(result) :
       /\ [result[i] EXCEPT !.cost = Unscored] \in SeqToSet(built)
       /\ result[i].min_distance.k = "fin" =>
            result[i].cost = Fin(WeightedSum(result[i]))
       /\ result[i].min_distance.k = "inf" =>
            result[i].cost = IF cfg.potential_scale > 0 THEN PosInf ELSE NaN
  /\ PositiveWeights =>
       \A i, j \in 1..Len(result) :
         LET f == result[i]
             g == result[j]
         IN  /\ (/\ f.size > g.size
                 /\ f.min_distance = g.min_distance
                 /\ f.min_distance.k = "fin"
                 /\ f.angular_distance = g.angular_distance) =>
                  DLess(f.cost, g.cost)
             /\ (/\ DLess(f.min_distance, g.min_distance)
                 /\ f.size = g.size
                 /\ f.angular_distance = g.angular_distance) =>
                  DLess(f.cost, g.cost)
             /\ (/\ f.angular_distance < g.angular_distance
                 /\ f.min_distance = g.min_distance
                 /\ f.min_distance.k = "fin"
                 /\ f.size = g.size) =>
                  DLess(f.cost, g.cost)
  /\ PositiveWeights =>
       \A i \in 1..Len(result) : \A d \in 1..MaxCells :
         LET f == result[i]
             larger == [f EXCEPT !.size = @ + d]
             farther == [f EXCEPT !.min_distance = Fin(@.v + d)]
             turned == [f EXCEPT !.angular_distance = @ + d]
         IN  f.min_distance.k = "fin" =>
               /\ DLess(frontierCost(larger, cfg), f.cost)
               /\ DLess(f.cost, frontierCost(farther, cfg))
               /\ DLess(f.cost, frontierCost(turned, cfg))

\* C15, witness: with positive weights two frontiers were returned that
\* agree in size and min_distance, one of them less turned from the pose.
C15_Witness ==
  /\ pc = "done"
  /\ PositiveWeights
  /\ \E i, j \in 1..Len(result) :
       /\ result[i].angular_distance < result[j].angular_distance
       /\ result[i].min_distance = result[j].min_distance
       /\ result[i].min_distance.k = "fin"
       /\ result[i].size = result[j].size

\* The map the search reads, as it read it when it locked it.
Snapshot == [sx |-> size_x_, sy |-> size_y_, cells |-> map_]
AllCells == 0..(Len(map_) - 1)

Col(c) == c % size_x_
Row(c) == c \div size_x_

\* The cells a and b share an edge; share an edge or a corner.
Adjacent4(a, b) == Abs(Col(a) - Col(b)) + Abs(Row(a) - Row(b)) = 1
Adjacent8(a, b) ==
  a # b /\ Abs(Col(a) - Col(b)) <= 1 /\ Abs(Row(a) - Row(b)) <= 1

RECURSIVE Reach4(_, _)
\* The cells of W joined to the cells S by a chain of cells of W sharing
\* edges.
Reach4(S, W) ==
  LET T == S \cup {c \in W : \E d \in S : Adjacent4(c, d)}
  IN  IF T = S THEN S ELSE Reach4(T, W)

RECURSIVE Reach8(_, _)
\* The same for chains of cells sharing edges or corners.
Reach8(S, W) ==
  LET T == S \cup {c \in W : \E d \in S : Adjacent8(c, d)}
  IN  IF T = S THEN S ELSE Reach8(T, W)

FreeCells == {c \in AllCells : map_[c + 1] = FREE_SPACE}

\* The search started at a free cell, and the free cells joined to it.
SeedFree == SeedCell \in FreeCells
FreeComponent == Reach4({SeedCell}, FreeCells)

\* A frontier cell: unknown, with a free cell at one of its edges.
IsFrontierCell(c) ==
  /\ map_[c + 1] = NO_INFORMATION
  /\ \E d \in FreeCells : Adjacent4(c, d)
FrontierCells == {c \in AllCells : IsFrontierCell(c)}

\* The frontier cells at an edge of the flood-filled free area, and the
\* maximal 8-connected sets of frontier cells that hold one of them.
ReachableFrontierCells ==
  {c \in FrontierCells : \E d \in FreeComponent : Adjacent4(c, d)}
ExpectedRegions == {Reach8({c}, FrontierCells) : c \in ReachableFrontierCells}

WorldOf(S) == {CellToWorld(c, Snapshot) : c \in S}

\* The discovery BFS has drained.
Drained == pc = "bfs" /\ bfs = <<>>

\* C16: with no maximum size and a free start cell, when the discovery BFS
\* has drained the regions built are the maximal 8-connected sets of
\* frontier cells that touch the flood-filled free area, one region for
\* each set and every cell of the set in it, counted once; the frontiers
\* collected are as many as those sets of at least the minimum size.
C16_OneRegionPerComponent ==
  (Drained /\ SeedFree /\ cfg.max_frontier_size <= 0) =>
    /\ Len(built) = Cardinality(ExpectedRegions)
    /\ {RegionCells(built[i]) : i \in 1..Len(built)}
         = {WorldOf(R) : R \in ExpectedRegions}
    /\ \A i \in 1..Len(built) :
         built[i].size = Cardinality(RegionCells(built[i]))
    /\ Len(frontier_list) =
         Cardinality({R \in ExpectedRegions :
                        Cardinality(R) * Resolution >= cfg.min_frontier_size})

\* C16, witness: two separate sets of frontier cells, each of the minimum
\* size, gave two frontiers.
C16_Witness ==
  /\ Drained
  /\ SeedFree
  /\ cfg.max_frontier_size <= 0
  /\ cfg.min_frontier_size > 0
  /\ Cardinality(ExpectedRegions) = 2
  /\ Len(frontier_list) = 2

\* The cells of all regions built.
BuiltCells == UNION {RegionCells(built[i]) : i \in 1..Len(built)}

\* C17: with a free start cell, whatever the minimum and maximum sizes,
\* when the discovery BFS has drained every unknown cell at an edge of the
\* flood-filled free area has its frontier flag set and is a cell of a
\* region built in this call.
C17_DiscoveryComplete ==
  (Drained /\ SeedFree) =>
    \A c \in ReachableFrontierCells :
      /\ frontier_flag[c]
      /\ CellToWorld(c, Snapshot) \in BuiltCells

\* C17, witness: with a maximum size set, regions were cut short and the
\* cells left over were found again: more regions than 8-connected sets.
C17_Witness ==
  /\ Drained
  /\ SeedFree
  /\ cfg.max_frontier_size > 0
  /\ Len(built) > Cardinality(ExpectedRegions)

\* C18: a frontier flag is set only on frontier cells, so the first cell
\* and every point of every region, built or under construction, is an
\* unknown cell with a free cell at an edge, and none is free or occupied.
C18_FlagsSound ==
  /\ Searching => \A c \in Flagged(frontier_flag) : IsFrontierCell(c)
  /\ BuiltCells \subseteq WorldOf(FrontierCells)
  /\ pc = "build" => RegionCells(output) \subseteq WorldOf(FrontierCells)

\* C18, witness: four flags or more are set.
C18_Witness ==
  /\ Searching
  /\ Cardinality(Flagged(frontier_flag)) >= 4

RECURSIVE Flatten(_)
\* The first cell and the points of each region of the list, in one list.
Flatten(list) ==
  IF list = <<>> THEN <<>>
  ELSE <<Head(list).initial>> \o Head(list).points \o Flatten(Tail(list))

\* The regions built in this call, the one under construction included.
Regions == IF pc = "build" THEN Append(built, output) ELSE built

\* C19: no cell occurs twice among the first cells and points of the
\* regions of one call, whether cut short by the maximum size or dropped
\* by the minimum size; the cells flagged are the cells of those regions;
\* and a frontier flag once set stays set while the call searches.
C19_NoCellTwice ==
  /\ [](Cardinality(SeqToSet(Flatten(Regions))) = Len(Flatten(Regions)))
  /\ [](Searching =>
         WorldOf(Flagged(frontier_flag)) = SeqToSet(Flatten(Regions)))
  /\ [][(Searching /\ pc' \in {"bfs", "nbrs", "build"}) =>
          \A c \in Flagged(frontier_flag) : frontier_flag'[c]]_vars

\* C19, witness: a call built two regions and dropped both as too small.
C19_Witness ==
  /\ pc = "done"
  /\ Len(built) >= 2
  /\ result = <<>>

\* C20: every cell marked visited after the start cell is at an edge of
\* the visited cell being expanded, whose value is at least its own, and is
\* queued as it is marked; nothing else is queued, so no cell is queued
\* twice; hence no visited cell has a value above the start cell's.  With a
\* free start cell only free cells joined to it are visited, no occupied
\* and no unknown one, and when the discovery BFS has drained all of them
\* are.
C20_FloodFill ==
  /\ []((Searching /\ SeedCell \in AllCells) =>
         /\ \A c \in Flagged(visited_flag) : map_[c + 1] <= map_[SeedCell + 1]
         /\ SeqToSet(bfs) \subseteq Flagged(visited_flag)
         /\ Cardinality(SeqToSet(bfs)) = Len(bfs)
         /\ SeedFree => Flagged(visited_flag) \subseteq FreeComponent
         /\ (SeedFree /\ Drained) => Flagged(visited_flag) = FreeComponent)
  /\ [][(Searching /\ pc' \in {"bfs", "nbrs", "build"}) =>
          LET new == Flagged(visited_flag') \ Flagged(visited_flag)
          IN  /\ Flagged(visited_flag) \subseteq Flagged(visited_flag')
              /\ \A c \in new :
                   /\ Adjacent4(c, idx)
                   /\ visited_flag[idx]
                   /\ map_[c + 1] <= map_[idx + 1]
                   /\ bfs' = Append(bfs, c)
              /\ new = {} => (bfs' = bfs \/ bfs' = Tail(bfs))]_vars

\* C20, witness: the flood fill from a free start cell has drained with
\* five cells visited, in a map that has other cells too.
C20_Witness ==
  /\ Drained
  /\ SeedFree
  /\ Cardinality(Flagged(visited_flag)) >= 5
  /\ FreeCells # AllCells

TypeOK ==
  /\ costmap \in Maps
  /\ lock \in {"free", "search", "mapper"}
  /\ pc \in {"idle", "convert", "lock", "setup", "bfs", "nbrs", "build", "done",
            "crashed"}

====
